---- MODULE Spec2Model ----
(***************************************************************************)
(* Model of scripts/simple-ta-test.c: a sequential client that opens a     *)
(* TEE context and session, runs four fixed TA commands and reports.       *)
(*                                                                         *)
(* The TEE client library and the trusted application are external: each   *)
(* TEEC_* call is a nondeterministic choice over the results the API can   *)
(* return (result code, reported length in params[2].value.a, bytes put    *)
(* into the output buffer).                                                *)
(*                                                                         *)
(* output_buffer[output_len] = '\0' with output_len >= 256 is a write      *)
(* outside the array: undefined behaviour.  It is modelled as a choice     *)
(* among the outcomes in UBOutcomes.                                       *)
(***************************************************************************)
EXTENDS Integers, Sequences, FiniteSets, TLC

\* ------------------------------------------------------------------ bounds
\* Reported lengths are explored up to MaxLenSlack past the literal's length
\* and within MaxLenSlack of the buffer capacity, on both sides of it.
MaxLenSlack == 2

\* ------------------------------------------------------- program constants
TEEC_SUCCESS == 0
OutputBufferSize == 256
CMD_HELLO == 0
CMD_ECHO == 1
CMD_VERSION == 2
CMD_SECURITY == 10
ErrxStatus == 1
NoExit == -1
NoWrite == -1

\* TEEC_ERROR_GENERIC (0xFFFF0000) and TEEC_ERROR_BAD_PARAMETERS (0xFFFF0006),
\* two non-success codes, written as the 32-bit patterns read as signed
ErrorCodes == {-65536, -65530}
Results == {TEEC_SUCCESS} \cup ErrorCodes

\* Exit statuses of a process killed by SIGABRT / SIGSEGV
CrashStatuses == {134, 139}

\* Outcomes of the out-of-bounds terminator write: it lands in unused
\* memory, it kills the process, or it zeroes the low byte of one of
\* main's counters, which live above the callee's frame.
UBOutcomes == {"intact", "crash", "clobber_test_count", "clobber_passed_count"}

\* char input_message[] = "Test Echo Message";  (17 characters and the NUL)
input_message ==
  <<84, 101, 115, 116, 32, 69, 99, 104, 111, 32, 77, 101, 115, 115, 97, 103, 101, 0>>

\* ---------------------------------------------------------- C library
RECURSIVE strlen_from(_, _)
strlen_from(s, i) ==
  IF i > Len(s) \/ s[i] = 0 THEN i - 1 ELSE strlen_from(s, i + 1)

\* sizeof of a char array: every element, the terminator included
sizeof(s) == Len(s)

\* mutant of strlen: counts the terminator as well
strlen_counts_nul(s) == strlen_from(s, 1) + 1

strlen(s) == strlen_from(s, 1)

RECURSIVE strcmp_from(_, _, _)
strcmp_from(a, b, i) ==
  LET ca == IF i <= Len(a) THEN a[i] ELSE 0
      cb == IF i <= Len(b) THEN b[i] ELSE 0
  IN IF ca # cb THEN ca - cb
     ELSE IF ca = 0 THEN 0
     ELSE strcmp_from(a, b, i + 1)

\* mutant of strcmp: compares only the first strlen(a) bytes (strncmp)
strcmp_prefix_only(a, b) ==
  LET n == strlen(a)
  IN IF \A i \in 1..n : i <= Len(b) /\ a[i] = b[i] THEN 0 ELSE 1

strcmp(a, b) == strcmp_from(a, b, 1)

\* ------------------------------------------------- trusted application
\* The bytes of the literal, without the terminator
Literal == SubSeq(input_message, 1, strlen_from(input_message, 1))

ToLower(b) == IF b >= 65 /\ b <= 90 THEN b + 32 ELSE b

\* Byte sequences the TA may put at the start of the output buffer
Payloads ==
  { <<>>,
    Literal,
    SubSeq(Literal, 1, Len(Literal) - 1),
    [i \in 1..Len(Literal) |-> ToLower(Literal[i])],
    Literal \o <<0>>,
    Literal \o <<33>>,
    Literal \o <<0, 33>>,
    [i \in 1..OutputBufferSize |-> 65],
    [i \in 1..OutputBufferSize |-> IF i <= Len(Literal) THEN Literal[i] ELSE 65] }

\* Values the TA may report in params[2].value.a
Lengths ==
  (0..(Len(Literal) + MaxLenSlack))
    \cup ((OutputBufferSize - MaxLenSlack)..(OutputBufferSize + MaxLenSlack))

\* What one TEEC_InvokeCommand can return
Responses == [res : Results, a : Lengths, data : Payloads]

\* char output_buffer[256] = {0}; then the TA writes data at its start
OutputBuffer(data) ==
  [i \in 1..OutputBufferSize |-> IF i <= Len(data) THEN data[i] ELSE 0]

\* output_buffer[output_len] = '\0';  (C index output_len is position +1)
Terminate(buf, output_len) ==
  IF output_len < OutputBufferSize
  THEN [buf EXCEPT ![output_len + 1] = 0]
  ELSE buf

\* ------------------------------------------------------ test functions
\* Each returns the callee's frame at the point it stops: ret is the return
\* value, term the index of the terminator write (NoWrite when none),
\* fate what the terminator write did.
NoFrame == [cmd |-> -1]

Fate(output_len, u) == IF output_len < OutputBufferSize THEN "intact" ELSE u

SimpleTest(cmd, r, u) ==
  IF r.res # TEEC_SUCCESS
  THEN [cmd |-> cmd, res |-> r.res, p0size |-> 0, p1size |-> sizeof(OutputBuffer(r.data)),
        output_len |-> 0, output_buffer |-> OutputBuffer(r.data),
        term |-> NoWrite, ret |-> -1, fate |-> "intact"]
  ELSE [cmd |-> cmd, res |-> r.res, p0size |-> 0, p1size |-> sizeof(OutputBuffer(r.data)),
        output_len |-> r.a, output_buffer |-> Terminate(OutputBuffer(r.data), r.a),
        term |-> r.a, ret |-> 0, fate |-> Fate(r.a, u)]

test_hello_world(r, u) == SimpleTest(CMD_HELLO, r, u)

test_echo(r, u) ==
  IF r.res # TEEC_SUCCESS
  THEN [cmd |-> CMD_ECHO, res |-> r.res, p0size |-> strlen(input_message),
        p1size |-> sizeof(OutputBuffer(r.data)),
        output_len |-> 0, output_buffer |-> OutputBuffer(r.data),
        term |-> NoWrite, ret |-> -1, fate |-> "intact"]
  ELSE LET buf == Terminate(OutputBuffer(r.data), r.a)
       IN [cmd |-> CMD_ECHO, res |-> r.res, p0size |-> strlen(input_message),
           p1size |-> sizeof(OutputBuffer(r.data)),
           output_len |-> r.a, output_buffer |-> buf,
           term |-> r.a,
           ret |-> IF strcmp(input_message, buf) = 0 THEN 0 ELSE -1,
           fate |-> Fate(r.a, u)]

test_version(r, u) == SimpleTest(CMD_VERSION, r, u)

test_security_check(r, u) == SimpleTest(CMD_SECURITY, r, u)

\* ---------------------------------------------------------------- state
VARIABLES
  pc,            \* position of main
  ctx,           \* TEEC_Context: "absent", "initialized", "finalized"
  session,       \* TEEC_Session: "absent", "open", "closed"
  res,           \* main's res: result of the last setup call
  test_count,
  passed_count,
  frame,         \* frame of the test function that ran last
  banner,        \* which result banner was printed
  exit_code,     \* process exit status, NoExit while running
  api,           \* history: the TEEC_* calls made, in order
  tests,         \* history: per test run, its command, result and counting
  oob            \* history: a terminator write went out of bounds

vars == <<pc, ctx, session, res, test_count, passed_count, frame, banner,
          exit_code, api, tests, oob>>

Call(name, arg) == [call |-> name, arg |-> arg]

Init ==
  /\ pc = "init_context"
  /\ ctx = "absent"
  /\ session = "absent"
  /\ res = TEEC_SUCCESS
  /\ test_count = 0
  /\ passed_count = 0
  /\ frame = NoFrame
  /\ banner = "none"
  /\ exit_code = NoExit
  /\ api = <<>>
  /\ tests = <<>>
  /\ oob = FALSE

\* res = TEEC_InitializeContext(NULL, &ctx); errx(1, ...) on failure
MainInitializeContext ==
  /\ pc = "init_context"
  /\ \E r \in Results :
       /\ res' = r
       /\ api' = Append(api, Call("TEEC_InitializeContext", 0))
       /\ IF r # TEEC_SUCCESS
          THEN /\ pc' = "exit_errx"
               /\ exit_code' = ErrxStatus
               /\ ctx' = ctx
          ELSE /\ pc' = "open_session"
               /\ exit_code' = exit_code
               /\ ctx' = "initialized"
  /\ UNCHANGED <<session, test_count, passed_count, frame, banner, tests, oob>>

\* mutant of MainOpenSession: no abort when the open fails
MainOpenSession_no_abort ==
  /\ pc = "open_session"
  /\ \E r \in Results :
       /\ res' = r
       /\ api' = Append(api, Call("TEEC_OpenSession", 0))
       /\ pc' = "hello_count"
       /\ session' = IF r = TEEC_SUCCESS THEN "open" ELSE session
  /\ UNCHANGED <<ctx, test_count, passed_count, frame, banner, exit_code, tests, oob>>

\* res = TEEC_OpenSession(&ctx, &session, ...); errx(1, ...) on failure
MainOpenSession ==
  /\ pc = "open_session"
  /\ \E r \in Results :
       /\ res' = r
       /\ api' = Append(api, Call("TEEC_OpenSession", 0))
       /\ IF r # TEEC_SUCCESS
          THEN /\ pc' = "exit_errx"
               /\ exit_code' = ErrxStatus
               /\ session' = session
          ELSE /\ pc' = "hello_count"
               /\ exit_code' = exit_code
               /\ session' = "open"
  /\ UNCHANGED <<ctx, test_count, passed_count, frame, banner, tests, oob>>

CountPcs == {"hello_count", "echo_count", "version_count", "security_count"}

AfterCount(p) ==
  CASE p = "hello_count" -> "hello_call"
    [] p = "echo_count" -> "echo_call"
    [] p = "version_count" -> "version_call"
    [] p = "security_count" -> "security_call"

\* mutant of MainCountTest: the increment is missing
MainCountTest_no_increment ==
  /\ pc \in CountPcs
  /\ pc' = AfterCount(pc)
  /\ frame' = NoFrame
  /\ UNCHANGED <<ctx, session, res, test_count, passed_count, banner, exit_code,
                 api, tests, oob>>

\* test_count++;  the previous callee's frame is dead by now
MainCountTest ==
  /\ pc \in CountPcs
  /\ test_count' = test_count + 1
  /\ pc' = AfterCount(pc)
  /\ frame' = NoFrame
  /\ UNCHANGED <<ctx, session, res, passed_count, banner, exit_code, api, tests, oob>>

\* A zero byte written over the low byte of an int
ZeroLowByte(n) == n - (n % 256)

\* if (test_xxx(&session) == 0) passed_count++;  with f the frame the test
\* function left behind
RunTest(f, next) ==
  /\ api' = Append(api, Call("TEEC_InvokeCommand", f.cmd))
  /\ frame' = f
  /\ oob' = (oob \/ (f.term # NoWrite /\ f.term >= OutputBufferSize))
  /\ IF f.fate = "crash"
     THEN /\ pc' = "exit_crash"
          /\ exit_code' \in CrashStatuses
          /\ tests' = Append(tests, [cmd |-> f.cmd, ok |-> (f.res = TEEC_SUCCESS), counted |-> FALSE])
          /\ UNCHANGED <<test_count, passed_count>>
     ELSE LET tc == IF f.fate = "clobber_test_count"
                    THEN ZeroLowByte(test_count) ELSE test_count
              pcnt == IF f.fate = "clobber_passed_count"
                      THEN ZeroLowByte(passed_count) ELSE passed_count
          IN /\ test_count' = tc
             /\ passed_count' = IF f.ret = 0 THEN pcnt + 1 ELSE pcnt
             /\ tests' = Append(tests, [cmd |-> f.cmd, ok |-> (f.res = TEEC_SUCCESS),
                                        counted |-> (f.ret = 0)])
             /\ pc' = next
             /\ exit_code' = exit_code
  /\ UNCHANGED <<ctx, session, res, banner>>

MainHelloWorld ==
  /\ pc = "hello_call"
  /\ \E r \in Responses, u \in UBOutcomes :
       RunTest(test_hello_world(r, u), "echo_count")

MainEcho ==
  /\ pc = "echo_call"
  /\ \E r \in Responses, u \in UBOutcomes :
       RunTest(test_echo(r, u), "version_count")

MainVersion ==
  /\ pc = "version_call"
  /\ \E r \in Responses, u \in UBOutcomes :
       RunTest(test_version(r, u), "security_count")

MainSecurityCheck ==
  /\ pc = "security_call"
  /\ \E r \in Responses, u \in UBOutcomes :
       RunTest(test_security_check(r, u), "report")

\* the summary line and one of the two banners
MainReport ==
  /\ pc = "report"
  /\ banner' = IF passed_count = test_count THEN "all_passed" ELSE "some_failed"
  /\ pc' = "close_session"
  /\ frame' = NoFrame
  /\ UNCHANGED <<ctx, session, res, test_count, passed_count, exit_code, api,
                 tests, oob>>

\* TEEC_CloseSession(&session);
MainCloseSession ==
  /\ pc = "close_session"
  /\ session' = "closed"
  /\ api' = Append(api, Call("TEEC_CloseSession", 0))
  /\ pc' = "finalize_context"
  /\ UNCHANGED <<ctx, res, test_count, passed_count, frame, banner, exit_code,
                 tests, oob>>

\* TEEC_FinalizeContext(&ctx);
MainFinalizeContext ==
  /\ pc = "finalize_context"
  /\ ctx' = "finalized"
  /\ api' = Append(api, Call("TEEC_FinalizeContext", 0))
  /\ pc' = "return"
  /\ UNCHANGED <<session, res, test_count, passed_count, frame, banner, exit_code,
                 tests, oob>>

\* mutant of ExitStatus: the two statuses swapped
ExitStatus_swapped(passed, total) == IF passed = total THEN 1 ELSE 0

\* (passed_count == test_count) ? 0 : 1
ExitStatus(passed, total) == IF passed = total THEN 0 ELSE 1

\* return (passed_count == test_count) ? 0 : 1;
MainReturn ==
  /\ pc = "return"
  /\ exit_code' = ExitStatus(passed_count, test_count)
  /\ pc' = "exit_return"
  /\ UNCHANGED <<ctx, session, res, test_count, passed_count, frame, banner,
                 api, tests, oob>>

Next ==
  \/ MainInitializeContext
  \/ MainOpenSession
  \/ MainCountTest
  \/ MainHelloWorld
  \/ MainEcho
  \/ MainVersion
  \/ MainSecurityCheck
  \/ MainReport
  \/ MainCloseSession
  \/ MainFinalizeContext
  \/ MainReturn

Spec == Init /\ [][Next]_vars

\* ------------------------------------------------------------ properties
Exited == pc \in {"exit_errx", "exit_return", "exit_crash"}

CallPcs == {"hello_call", "echo_call", "version_call", "security_call"}

Invocations == SelectSeq(api, LAMBDA c : c.call = "TEEC_InvokeCommand")

\* The command codes passed to TEEC_InvokeCommand so far, in order
InvokedCmds == [i \in 1..Len(Invocations) |-> Invocations[i].arg]

\* Both setup steps succeeded in this run
SetupSucceeded == session # "absent"

\* C1 as stated: at every process exit, fatal setup aborts included, the exit
\* code is 0 if and only if passed_count == test_count.
C1_ExitCodeIffAllPassed_AtEveryExit ==
  Exited => (exit_code = 0 <=> passed_count = test_count)

\* C1 amended: when main returns, the exit code is 0 if and only if
\* passed_count == test_count; a fatal setup abort exits with 1 although both
\* counters are 0; at every exit, exit code 0 implies the counters are equal.
C1_ExitCodeIffAllPassed_AtReturn ==
  /\ pc = "exit_return" => (exit_code = 0 <=> passed_count = test_count)
  /\ pc = "exit_errx" => (exit_code = 1 /\ passed_count = 0 /\ test_count = 0)
  /\ (Exited /\ exit_code = 0) => passed_count = test_count

C1_Witness ==
  pc = "exit_return" /\ exit_code = 0 /\ passed_count = 4 /\ test_count = 4

\* C2: a test is counted in passed_count only if its invocation returned
\* success, and for the greeting, version and security-status tests every
\* invocation that returned success is counted, whatever length and content
\* came back.
C2_CountedIffSuccess ==
  \A i \in DOMAIN tests :
    /\ tests[i].counted => tests[i].ok
    /\ (tests[i].cmd # CMD_ECHO /\ tests[i].ok) => tests[i].counted

EchoRan == frame.cmd = CMD_ECHO

EchoCounted == tests[Len(tests)].counted

\* C3 as stated: the echo test is counted if and only if command 1 returned
\* success and the output_len bytes of the output buffer are exactly the
\* literal.
C3_EchoPassesIffPayloadIsLiteral ==
  EchoRan =>
    (EchoCounted <=>
       /\ frame.res = TEEC_SUCCESS
       /\ frame.output_len = 17
       /\ SubSeq(frame.output_buffer, 1, 17) = Literal)

\* The output buffer, after the terminator write, reads as the literal: its
\* first 17 bytes are the literal and the byte at index 17 is zero.
BufferReadsAsLiteral ==
  /\ frame.output_len >= 17
  /\ SubSeq(frame.output_buffer, 1, 17) = Literal
  /\ frame.output_buffer[18] = 0

\* C3 amended: the echo test is counted only if command 1 returned success
\* and the output buffer reads as the literal up to its first zero byte;
\* for a reported length below 256 that is also sufficient, so a response
\* with a longer reported length or with other bytes after the zero passes.
C3_EchoPassesIffBufferReadsAsLiteral ==
  EchoRan =>
    /\ EchoCounted => (frame.res = TEEC_SUCCESS /\ BufferReadsAsLiteral)
    /\ (/\ frame.res = TEEC_SUCCESS
        /\ frame.output_len < OutputBufferSize
        /\ BufferReadsAsLiteral) => EchoCounted

C3_Witness ==
  /\ EchoRan
  /\ EchoCounted
  /\ frame.output_len = 19
  /\ SubSeq(frame.output_buffer, 1, 19) = Literal \o <<0, 33>>

\* C4: in every run in which both setup steps succeeded, exactly the four
\* invocations 0, 1, 2, 10 have been made, in that order, when the process
\* exits.
C4_FourInvocationsInOrder ==
  (Exited /\ SetupSucceeded) =>
    InvokedCmds = <<CMD_HELLO, CMD_ECHO, CMD_VERSION, CMD_SECURITY>>

\* C5: once TEEC_InitializeContext or TEEC_OpenSession has returned a
\* non-success code the process has exited with a non-zero status, the failed
\* call was made once, no command was invoked and both counters are 0.
C5_SetupFailureAborts ==
  res # TEEC_SUCCESS =>
    /\ pc = "exit_errx"
    /\ exit_code # NoExit /\ exit_code # 0
    /\ api \in { <<Call("TEEC_InitializeContext", 0)>>,
                 <<Call("TEEC_InitializeContext", 0), Call("TEEC_OpenSession", 0)>> }
    /\ Len(Invocations) = 0
    /\ passed_count = 0
    /\ test_count = 0

C5_Witness ==
  /\ pc = "exit_errx"
  /\ res # TEEC_SUCCESS
  /\ Len(api) = 2
  /\ api[2].call = "TEEC_OpenSession"

\* C6: at every process exit no acquired context or session is unreleased,
\* and at a fatal setup abort nothing has been acquired.
C6_NothingUnreleasedAtExit ==
  Exited =>
    /\ ctx # "initialized"
    /\ session # "open"
    /\ pc = "exit_errx" => (ctx = "absent" /\ session = "absent")

\* C7: in every run in which both setup steps succeeded, by process exit the
\* session was closed once and then the context finalised once, both after
\* the fourth invocation, and nothing was invoked after the close.
C7_TeardownOnceAfterTests ==
  (Exited /\ SetupSucceeded) =>
    api = << Call("TEEC_InitializeContext", 0),
             Call("TEEC_OpenSession", 0),
             Call("TEEC_InvokeCommand", CMD_HELLO),
             Call("TEEC_InvokeCommand", CMD_ECHO),
             Call("TEEC_InvokeCommand", CMD_VERSION),
             Call("TEEC_InvokeCommand", CMD_SECURITY),
             Call("TEEC_CloseSession", 0),
             Call("TEEC_FinalizeContext", 0) >>

TestsStarted == Len(tests) + (IF pc \in CallPcs THEN 1 ELSE 0)

TestRan == frame.cmd # NoFrame.cmd

\* C9: whenever a test's invocation returned success with a reported length
\* of at most 256, the terminator write is at an index in 0..255.
C9_TerminatorInsideBuffer ==
  (TestRan /\ frame.res = TEEC_SUCCESS /\ frame.output_len <= 256) =>
    frame.term \in 0..255

\* C10 as stated: the echo test declares an input size of 18 bytes.
C10_EchoInputSizeIs18 ==
  EchoRan => frame.p0size = 18

\* C10 amended: the echo test declares an input size of 17 bytes, the
\* length of the literal without its terminator.
C10_EchoInputSizeIs17 ==
  EchoRan => (frame.p0size = 17 /\ frame.p0size = sizeof(input_message) - 1)

C10_Witness ==
  EchoRan /\ frame.p0size = 17 /\ pc = "version_count"

====
